---- MODULE Spec2Model ----
(***************************************************************************)
(* QSM-CI: the dataset grouper (qsm_ci/parse_bids.py) and the execution    *)
(* orchestrator (qsm_ci/run.py).                                           *)
(*                                                                         *)
(* Paths and file names are strings; the regular expressions and string    *)
(* methods of the Python code are evaluated character by character.        *)
(***************************************************************************)
EXTENDS Integers, Sequences, FiniteSets, TLC

(***************************************************************************)
(* Python values                                                           *)
(***************************************************************************)
\* Python's None where a string is expected (no \w+ capture contains "<").
None == "<None>"

\* Python truthiness of an optional string: None and "" are falsy.
Truthy(v) == v # None /\ v # ""

SetMin(S) == CHOOSE m \in S : \A n \in S : m <= n
SetMax(S) == CHOOSE m \in S : \A n \in S : n <= m

(***************************************************************************)
(* Strings                                                                 *)
(***************************************************************************)
\* The characters that occur in paths, in code point order.
Alphabet == "-./0123456789<>ABCDEFGHIJKLMNOPQRSTUVWXYZ_abcdefghijklmnopqrstuvwxyz"

Char(s, i) == SubSeq(s, i, i)

AllChars == {Char(Alphabet, i) : i \in 1..Len(Alphabet)}

\* ord(c), relative to the alphabet.
OrdTable == [c \in AllChars |-> CHOOSE i \in 1..Len(Alphabet) : Char(Alphabet, i) = c]

Ord(c) == OrdTable[c]

\* The regular expression classes \d, \w, [^_] and [^/].
DigitChars == {Char("0123456789", i) : i \in 1..10}

WordChars == {c \in AllChars : Ord(c) >= Ord("0") /\ c \notin {"<", ">"}}

NotUnderscore == AllChars \ {"_"}

NotSlash == AllChars \ {"/"}

\* str.startswith at offset i, str.endswith, `lit in s`.
StartsAt(s, i, lit) ==
    /\ i >= 1
    /\ i + Len(lit) - 1 <= Len(s)
    /\ SubSeq(s, i, i + Len(lit) - 1) = lit

EndsWith(s, lit) ==
    /\ Len(lit) <= Len(s)
    /\ SubSeq(s, Len(s) - Len(lit) + 1, Len(s)) = lit

Contains(s, lit) == \E i \in 1..Len(s) : StartsAt(s, i, lit)

\* Length of the longest run of characters of `class` starting at j.
RECURSIVE RunLen(_, _, _)
RunLen(s, j, class) ==
    IF j <= Len(s) /\ Char(s, j) \in class
    THEN 1 + RunLen(s, j + 1, class)
    ELSE 0

\* The lengths k >= 1 with which  pre (class+) suf  matches at offset i.
MatchLens(s, i, pre, class, sufs) ==
    {k \in 1..RunLen(s, i + Len(pre), class) :
        \E suf \in sufs : StartsAt(s, i + Len(pre) + k, suf)}

MatchStarts(s, pres, class, sufs) ==
    {i \in 1..Len(s) :
        \E pre \in pres : StartsAt(s, i, pre) /\ MatchLens(s, i, pre, class, sufs) # {}}

\* re.search(r'(?:pre1|pre2)(class+)(?=suf1|suf2)', s).group(1), or None:
\* the leftmost match, the class+ group greedy with backtracking.
ReSearch(s, pres, class, sufs) ==
    IF MatchStarts(s, pres, class, sufs) = {}
    THEN None
    ELSE LET i   == SetMin(MatchStarts(s, pres, class, sufs))
             pre == CHOOSE p \in pres :
                        StartsAt(s, i, p) /\ MatchLens(s, i, p, class, sufs) # {}
             k   == SetMax(MatchLens(s, i, pre, class, sufs))
         IN  SubSeq(s, i + Len(pre), i + Len(pre) + k - 1)

\* re.search(r'pre(alt1|alt2)suf', s).group(1), or None.
ReSearchAlt(s, pre, alts, suf) ==
    LET starts == {i \in 1..Len(s) : \E a \in alts : StartsAt(s, i, pre \o a \o suf)}
    IN  IF starts = {}
        THEN None
        ELSE CHOOSE a \in alts : StartsAt(s, SetMin(starts), pre \o a \o suf)

\* Python's < on str: lexicographic by code point.
RECURSIVE StrLessFrom(_, _, _)
StrLessFrom(a, b, i) ==
    IF i > Len(b) THEN FALSE
    ELSE IF i > Len(a) THEN TRUE
    ELSE IF Char(a, i) = Char(b, i) THEN StrLessFrom(a, b, i + 1)
    ELSE Ord(Char(a, i)) < Ord(Char(b, i))

StrLess(a, b) == StrLessFrom(a, b, 1)

\* str.isdigit and int(str) on ASCII digit strings.
IsDigit(s) == Len(s) > 0 /\ RunLen(s, 1, DigitChars) = Len(s)

RECURSIVE StrToInt(_)
StrToInt(s) ==
    IF Len(s) = 0 THEN 0
    ELSE 10 * StrToInt(SubSeq(s, 1, Len(s) - 1)) + (Ord(Char(s, Len(s))) - Ord("0"))

\* os.path.join(a, b) for a relative b.
PathJoin(a, b) == IF a = "" \/ EndsWith(a, "/") THEN a \o b ELSE a \o "/" \o b

(***************************************************************************)
(* Sorting                                                                 *)
(***************************************************************************)
\* list.sort / sorted with integer keys: stable, ascending.
StableSortByKeys(seq, keys) ==
    LET n      == Len(seq)
        pos(i) == 1 + Cardinality({j \in 1..n :
                        keys[j] < keys[i] \/ (keys[j] = keys[i] /\ j < i)})
    IN  [p \in 1..n |-> seq[CHOOSE i \in 1..n : pos(i) = p]]

\* sorted(list of numbers).
SortedNums(seq) == StableSortByKeys(seq, seq)

\* `x in list`.
InList(x, seq) == \E i \in 1..Len(seq) : seq[i] = x

\* [x for x in seq if x in keep]
RECURSIVE FilterSeq(_, _)
FilterSeq(seq, keep) ==
    IF seq = <<>> THEN <<>>
    ELSE IF Head(seq) \in keep
         THEN <<Head(seq)>> \o FilterSeq(Tail(seq), keep)
         ELSE FilterSeq(Tail(seq), keep)

\* dict.get(k, default) on a dict modelled as a function.
DictGet(d, k, default) == IF k \in DOMAIN d THEN d[k] ELSE default

\* d[k] = v
DictSet(d, k, v) == [x \in DOMAIN d \cup {k} |-> IF x = k THEN v ELSE d[x]]

EmptyDict == <<>>


(***************************************************************************)
(* The dataset: a directory tree under bids_dir                            *)
(***************************************************************************)
BidsDir == "bids"

\* Largest number of files in a dataset.
MaxFiles == 4

RawAnat == "bids/sub-1/anat"
RawFmap == "bids/sub-1/fmap"
DerivA1 == "bids/derivatives/swA/sub-1/anat"
DerivB1 == "bids/derivatives/swB/sub-1/anat"
DerivA2 == "bids/derivatives/swA/sub-2/anat"
RawSes1 == "bids/sub-1/ses-1/anat"
RawSub2 == "bids/sub-2/anat"

\* The files a dataset is drawn from, each with the directory os.walk
\* reports it in.
Universe ==
    { [root |-> RawAnat, file |-> "sub-1_run-1_echo-1_part-mag_MEGRE.nii"],
      [root |-> RawAnat, file |-> "sub-1_run-2_echo-1_part-mag_MEGRE.nii"],
      [root |-> RawAnat, file |-> "sub-1_run-3_echo-1_part-mag_MEGRE.nii"],
      [root |-> RawAnat, file |-> "sub-1_run-1_echo-1_part-mag_MEGRE.json"],
      [root |-> RawAnat, file |-> "sub-1_run-1_echo-1_part-phase_MEGRE.nii"],
      [root |-> RawAnat, file |-> "sub-1_acq-A_run-1_echo-1_part-mag_MEGRE.nii"],
      [root |-> RawAnat, file |-> "sub-1_acq-A_run-2_echo-1_part-mag_MEGRE.nii"],
      [root |-> RawFmap, file |-> "sub-1_run-1_echo-2_part-mag_MEGRE.json"],
      [root |-> DerivA1, file |-> "sub-1_mask.nii"],
      [root |-> DerivA1, file |-> "sub-1_acq-A_run-1_Chimap.nii"],
      [root |-> DerivB1, file |-> "sub-1_mask.nii"],
      [root |-> DerivA2, file |-> "sub-2_mask.nii"],
      [root |-> RawSes1, file |-> "sub-1_ses-1_run-1_echo-1_part-mag_MEGRE.nii"],
      [root |-> RawSub2, file |-> "sub-2_run-1_echo-1_part-mag_MEGRE.nii"] }

Trees == {t \in SUBSET Universe : Cardinality(t) <= MaxFiles}

\* A sidecar json.load cannot parse (or open cannot read), the datasets that
\* may hold it, and the largest number of files of such a dataset.
Malformed == [JSONDecodeError |-> TRUE]

BadSidecar == [root |-> RawAnat, file |-> "sub-1_run-2_echo-1_part-mag_MEGRE.json"]

MaxSidecarFiles == 3

SidecarTrees ==
    {t \in SUBSET (Universe \cup {BadSidecar}) : Cardinality(t) <= MaxSidecarFiles}

\* A multi-echo series of one WorkUnit with ten echoes or more: the files a
\* dataset holding such a series is drawn from, and the largest number of
\* files of such a dataset.
SeriesFiles ==
    { [root |-> RawAnat, file |-> "sub-1_run-1_echo-1_part-mag_MEGRE.nii"],
      [root |-> RawAnat, file |-> "sub-1_run-1_echo-2_part-mag_MEGRE.nii"],
      [root |-> RawAnat, file |-> "sub-1_run-1_echo-10_part-mag_MEGRE.nii"],
      [root |-> RawAnat, file |-> "sub-1_run-1_echo-2_part-phase_MEGRE.nii"],
      [root |-> RawAnat, file |-> "sub-1_run-1_echo-10_part-phase_MEGRE.nii"],
      [root |-> DerivA1, file |-> "sub-1_mask.nii"] }

MaxSeriesFiles == 4

SeriesTrees == {t \in SUBSET SeriesFiles : Cardinality(t) <= MaxSeriesFiles}

\* A WorkUnit with an entry in qsm-forward-params.json and sidecars with and
\* without a field direction, next to one without an entry: the files a
\* dataset of this kind is drawn from, and the largest number of its files.
DirectionFiles ==
    { [root |-> RawAnat, file |-> "sub-1_acq-A_run-1_echo-1_part-mag_MEGRE.nii"],
      [root |-> RawAnat, file |-> "sub-1_acq-A_run-1_echo-1_part-mag_MEGRE.json"],
      [root |-> RawAnat, file |-> "sub-1_acq-A_run-1_echo-2_part-mag_MEGRE.json"],
      [root |-> RawFmap, file |-> "sub-1_acq-A_run-1_echo-3_part-phase_MEGRE.json"],
      [root |-> RawAnat, file |-> "sub-1_run-1_echo-1_part-mag_MEGRE.json"],
      [root |-> RawFmap, file |-> "sub-1_run-1_echo-2_part-mag_MEGRE.json"],
      [root |-> DerivA1, file |-> "sub-1_mask.nii"] }

MaxDirectionFiles == 4

DirectionTrees == {t \in SUBSET DirectionFiles : Cardinality(t) <= MaxDirectionFiles}

\* A subject whose sessions are told apart by the file names only, all files
\* in one directory without a ses- segment: the files a dataset of this kind
\* is drawn from, and the largest number of its files.
SessionFiles ==
    { [root |-> RawAnat, file |-> "sub-1_run-1_echo-1_part-mag_MEGRE.nii"],
      [root |-> RawAnat, file |-> "sub-1_ses-1_run-1_echo-1_part-mag_MEGRE.nii"],
      [root |-> RawAnat, file |-> "sub-1_ses-2_run-1_echo-1_part-mag_MEGRE.nii"],
      [root |-> RawAnat, file |-> "sub-1_ses-2_run-1_echo-1_part-phase_MEGRE.nii"],
      [root |-> DerivA1, file |-> "sub-1_mask.nii"] }

MaxSessionFiles == 4

SessionTrees == {t \in SUBSET SessionFiles : Cardinality(t) <= MaxSessionFiles}

AllFiles ==
    Universe \cup {BadSidecar} \cup SeriesFiles \cup DirectionFiles \cup SessionFiles

\* json.load of a sidecar: the content of each .json file of the universe.
SidecarContent ==
    ("bids/sub-1/anat/sub-1_run-1_echo-1_part-mag_MEGRE.json" :>
        [EchoTime |-> 8, MagneticFieldStrength |-> "3"])
    @@
    ("bids/sub-1/fmap/sub-1_run-1_echo-2_part-mag_MEGRE.json" :>
        [EchoTime |-> 4, MagneticFieldStrength |-> "7", B0_dir |-> <<1, 0, 0>>])
    @@
    ("bids/sub-1/anat/sub-1_run-2_echo-1_part-mag_MEGRE.json" :> Malformed)
    @@
    ("bids/sub-1/anat/sub-1_acq-A_run-1_echo-1_part-mag_MEGRE.json" :>
        [EchoTime |-> 4, MagneticFieldStrength |-> "3"])
    @@
    ("bids/sub-1/anat/sub-1_acq-A_run-1_echo-2_part-mag_MEGRE.json" :>
        [EchoTime |-> 8, B0_direction |-> <<1, 1, 0>>, B0_dir |-> <<1, 0, 1>>])
    @@
    ("bids/sub-1/fmap/sub-1_acq-A_run-1_echo-3_part-phase_MEGRE.json" :>
        [EchoTime |-> 12, B0_dir |-> <<0, 1, 1>>])

\* The permutations of a finite set, as sequences.
Perms(S) ==
    {s \in [1..Cardinality(S) -> S] : \A i, j \in DOMAIN s : i # j => s[i] # s[j]}

\* os.path.dirname
Parent(d) ==
    LET slashes == {i \in 1..Len(d) : Char(d, i) = "/"}
    IN  IF slashes = {} THEN "" ELSE SubSeq(d, 1, SetMax(slashes) - 1)

RECURSIVE Ancestors(_)
Ancestors(d) ==
    IF d = BidsDir \/ d = "" THEN {BidsDir} ELSE {d} \cup Ancestors(Parent(d))

\* Every directory a dataset can have, with its parent and its ancestors
\* (tables, so that the string operations are evaluated once).
AllDirs == {BidsDir} \cup UNION {Ancestors(f.root) : f \in Universe}

ParentOf == [d \in AllDirs |-> Parent(d)]

AncestorsOf == [d \in AllDirs |-> Ancestors(d)]

\* The directories of a tree, the subdirectories and the files of one.
DirsOf(t) == {BidsDir} \cup UNION {AncestorsOf[f.root] : f \in t}

SubDirs(t, d) == {c \in DirsOf(t) : c # d /\ ParentOf[c] = d}

FilesIn(t, d) == {f.file : f \in {g \in t : g.root = d}}


(***************************************************************************)
(* State                                                                   *)
(***************************************************************************)
VARIABLES
    tree,              \* the dataset on disk: a set of [root, file]
    b0_dir_map,        \* acquisition -> B0_dir, from qsm-forward-params.json
    pc,                \* position of parse_bids_directory: walk, match, done
    stack,             \* directories os.walk has still to visit, next first
    root,              \* the directory being processed
    files,             \* its files not yet processed, sorted
    session,           \* the loop's session variable
    groups,            \* the WorkUnits built so far, in creation order
    temp_derivatives,  \* subject -> derivatives seen, in insertion order
    pending,           \* second pass: the derivatives still to attach
    result,            \* the list parse_bids_directory returns
    run_no,            \* which parse of the same tree this is (1 or 2)
    prev               \* the list the previous parse returned

grouperVars == <<tree, b0_dir_map, pc, stack, root, files, session, groups,
                 temp_derivatives, pending, result, run_no, prev>>

VARIABLES
    engine,            \* --container_engine: docker, apptainer or tinyrange
    units,             \* the WorkUnits run.main iterates over
    setup,             \* setup_environment: is there a main.sh, what is done
    main_pc,           \* position of run.main: setup, image, copy, loop, done,
                       \* aborted
    rpc,               \* per WorkUnit, the position of its run_algo call
    inputs_json,       \* content of <work_dir>/inputs.json (<<>>: no file)
    proc,              \* per WorkUnit, its sandboxed algorithm process
    output_dir,        \* <work_dir>/output: file name -> what the file is
    derived,           \* the derivatives tree: path -> what the file is
    containers,        \* docker: container name -> the WorkUnit it runs
    outcome            \* per WorkUnit, how its run_algo call ended

runVars == <<setup, engine, units, main_pc, rpc, inputs_json, proc, output_dir, derived,
             containers, outcome>>

vars == <<grouperVars, runVars>>

(***************************************************************************)
(* parse_bids_directory: classification of one file                        *)
(***************************************************************************)
\* rel_root = os.path.join('bids', os.path.sep.join(root.split(os.path.sep)[1:]))
RelRoot(r) ==
    LET slashes == {i \in 1..Len(r) : Char(r, i) = "/"}
    IN  PathJoin("bids",
                 IF slashes = {} THEN "" ELSE SubSeq(r, SetMin(slashes) + 1, Len(r)))

\* The file names and the paths of the universe, and the number of them
\* below each in Python's string order (a table, so that strings are compared
\* once).
KnownStrings ==
    {f.file : f \in AllFiles} \cup {PathJoin(RelRoot(f.root), f.file) : f \in AllFiles}

StrRank == [s \in KnownStrings |-> Cardinality({q \in KnownStrings : StrLess(q, s)})]

\* sorted(list of str), files.sort()
SortedStrs(seq) == StableSortByKeys(seq, [i \in 1..Len(seq) |-> StrRank[seq[i]]])

IsDerivative(r) == Contains(r, "derivatives")

RootSession(r) == ReSearch(r, {"ses-"}, WordChars, {""})

RootSessionOf == [d \in AllDirs |-> RootSession(d)]

HasDataExt(file) ==
    EndsWith(file, ".nii") \/ EndsWith(file, ".json") \/ EndsWith(file, ".nii.gz")

SubjectOf(r) == ReSearch(r, {"sub-"}, WordChars, {""})

\* if not session: session = the _ses- token of the file name, or None
FileSession(ses, file) ==
    IF ~Truthy(ses) THEN ReSearch(file, {"_ses-"}, WordChars, {""}) ELSE ses

AcquisitionOf(file) == ReSearch(file, {"_acq-", "_run-"}, WordChars, {"_"})

RunOf(file) == ReSearch(file, {"_run-"}, DigitChars, {"_"})

EchoOf(file) == ReSearch(file, {"_echo-"}, DigitChars, {"_"})

PartOf(file) == ReSearchAlt(file, "_part-", {"mag", "phase"}, "_")

SuffixOf(file) == ReSearchAlt(file, "_MEGRE.", {"nii", "json"}, "")

SoftwareNameOf(r) == ReSearch(r, {"derivatives/"}, NotSlash, {"/"})

DerivativeTypeOf(file) == ReSearch(file, {"_"}, NotUnderscore, {".nii", ".nii.gz"})

\* echo_number = int(echo_match.group(1)), 1 without a match.
EchoNumber(file) == IF EchoOf(file) # None THEN StrToInt(EchoOf(file)) ELSE 1

\* The file is of the raw MEGRE series: it is grouped into a WorkUnit.
IsPrimary(r, file) ==
    /\ EchoOf(file) # None
    /\ PartOf(file) # None
    /\ SuffixOf(file) # None
    /\ ~IsDerivative(r)

\* The file is queued in temp_derivatives.
IsQueuedDerivative(r, file) ==
    /\ IsDerivative(r)
    /\ SoftwareNameOf(r) # None
    /\ DerivativeTypeOf(file) # None

\* temp_derivatives[subject].append(d)
QueueDerivative(td, subject, d) ==
    IF \E i \in 1..Len(td) : td[i].subject = subject
    THEN [i \in 1..Len(td) |->
            IF td[i].subject = subject
            THEN [td[i] EXCEPT !.derivatives = Append(@, d)]
            ELSE td[i]]
    ELSE Append(td, [subject |-> subject, derivatives |-> <<d>>])

\* What the loop body derives from the directory and the name of a file
\* alone (a table over the universe, so that each regular expression is
\* evaluated once per file).
FileFacts ==
    [f \in AllFiles |->
        [ hasDataExt   |-> HasDataExt(f.file),
          subject      |-> SubjectOf(f.root),
          rootSession  |-> RootSession(f.root),
          noSession    |-> FileSession(None, f.file),
          acquisition  |-> AcquisitionOf(f.file),
          run          |-> RunOf(f.file),
          echo_number  |-> EchoNumber(f.file),
          part         |-> PartOf(f.file),
          isPrimary    |-> IsPrimary(f.root, f.file),
          isQueued     |-> IsQueuedDerivative(f.root, f.file),
          software     |-> SoftwareNameOf(f.root),
          type         |-> DerivativeTypeOf(f.file),
          path         |-> PathJoin(RelRoot(f.root), f.file),
          isNii        |-> EndsWith(f.file, ".nii") \/ EndsWith(f.file, ".nii.gz"),
          isJson       |-> EndsWith(f.file, ".json") ]]

Facts(r, file) == FileFacts[[root |-> r, file |-> file]]

(***************************************************************************)
(* parse_bids_directory: the WorkUnit of a primary file                    *)
(***************************************************************************)
\* Mutant of KeyMatches: the key compared with `is` instead of ==, which
\* holds of two strings read from different file names only when both are None.
KeyMatchesByIdentity(g, subject, ses, acquisition, run) ==
    /\ g.Subject = None /\ subject = None
    /\ g.Session = None /\ ses = None
    /\ g.Acquisition = None /\ acquisition = None
    /\ g.Run = None /\ run = None

KeyMatches(g, subject, ses, acquisition, run) ==
    /\ g.Subject = subject
    /\ g.Session = ses
    /\ g.Acquisition = acquisition
    /\ g.Run = run

\* next((g for g in groups if ...), None): the index of the first group with
\* the key, 0 when there is none.
FindGroup(gs, subject, ses, acquisition, run) ==
    LET hits == {i \in 1..Len(gs) : KeyMatches(gs[i], subject, ses, acquisition, run)}
    IN  IF hits = {} THEN 0 ELSE SetMin(hits)

NewGroup(subject, ses, acquisition, run) ==
    [ Subject               |-> subject,
      Session               |-> ses,
      Acquisition           |-> acquisition,
      Run                   |-> run,
      phase_nii             |-> <<>>,
      phase_json            |-> <<>>,
      mag_nii               |-> <<>>,
      mag_json              |-> <<>>,
      EchoTime              |-> <<>>,
      MagneticFieldStrength |-> None,
      Derivatives           |-> EmptyDict,
      B0_dir                |-> DictGet(b0_dir_map, acquisition, <<0, 0, 1>>),
      mask                  |-> None ]

\* Mutant of ReadSidecar: B0_dir is preferred over B0_direction.
ReadSidecarPreferB0Dir(g, metadata) ==
    LET te == DictGet(metadata, "EchoTime", 0)
        g1 == IF te # 0 /\ ~InList(te, g.EchoTime)
              THEN [g EXCEPT !.EchoTime = Append(@, te)]
              ELSE g
        g2 == IF g1.MagneticFieldStrength = None
              THEN [g1 EXCEPT !.MagneticFieldStrength =
                                  DictGet(metadata, "MagneticFieldStrength", None)]
              ELSE g1
    IN  IF "B0_dir" \in DOMAIN metadata
        THEN [g2 EXCEPT !.B0_dir = metadata["B0_dir"]]
        ELSE IF "B0_direction" \in DOMAIN metadata
             THEN [g2 EXCEPT !.B0_dir = metadata["B0_direction"]]
             ELSE g2

\* The metadata block: EchoTime, MagneticFieldStrength and B0 of a sidecar.
ReadSidecar(g, metadata) ==
    LET te == DictGet(metadata, "EchoTime", 0)
        g1 == IF te # 0 /\ ~InList(te, g.EchoTime)
              THEN [g EXCEPT !.EchoTime = Append(@, te)]
              ELSE g
        g2 == IF g1.MagneticFieldStrength = None
              THEN [g1 EXCEPT !.MagneticFieldStrength =
                                  DictGet(metadata, "MagneticFieldStrength", None)]
              ELSE g1
    IN  IF "B0_direction" \in DOMAIN metadata
        THEN [g2 EXCEPT !.B0_dir = metadata["B0_direction"]]
        ELSE IF "B0_dir" \in DOMAIN metadata
             THEN [g2 EXCEPT !.B0_dir = metadata["B0_dir"]]
             ELSE g2

\* Add files to the group based on their type.
AddFile(g, r, file) ==
    LET path  == Facts(r, file).path
        part  == Facts(r, file).part
        isNii == Facts(r, file).isNii
        isJs  == Facts(r, file).isJson
        meta  == SidecarContent[PathJoin(r, file)]
    IN  IF part = "mag"
        THEN IF isNii
             THEN IF ~InList(path, g.mag_nii)
                  THEN [g EXCEPT !.mag_nii = Append(@, path)] ELSE g
             ELSE IF isJs /\ ~InList(path, g.mag_json)
                  THEN ReadSidecar([g EXCEPT !.mag_json = Append(@, path)], meta)
                  ELSE g
        ELSE IF part = "phase"
        THEN IF isNii
             THEN IF ~InList(path, g.phase_nii)
                  THEN [g EXCEPT !.phase_nii = Append(@, path)] ELSE g
             ELSE IF isJs /\ ~InList(path, g.phase_json)
                  THEN ReadSidecar([g EXCEPT !.phase_json = Append(@, path)], meta)
                  ELSE g
        ELSE g

\* Mutant of SortGroup: only the EchoTime list is sorted.
SortGroupEchoTimeOnly(g) ==
    [g EXCEPT !.EchoTime = SortedNums(@)]

\* The five sorted(...) assignments that end the loop body.
SortGroup(g) ==
    [g EXCEPT !.EchoTime   = SortedNums(@),
              !.mag_nii    = SortedStrs(@),
              !.mag_json   = SortedStrs(@),
              !.phase_nii  = SortedStrs(@),
              !.phase_json = SortedStrs(@)]

\* Resolve or create the group of a primary file and add the file to it.
GroupFile(gs, subject, ses, r, file) ==
    LET acquisition == Facts(r, file).acquisition
        run         == Facts(r, file).run
        found       == FindGroup(gs, subject, ses, acquisition, run)
        gs1         == IF found = 0
                       THEN Append(gs, NewGroup(subject, ses, acquisition, run))
                       ELSE gs
        i           == IF found = 0 THEN Len(gs1) ELSE found
    IN  [gs1 EXCEPT ![i] = SortGroup(AddFile(gs1[i], r, file))]

(***************************************************************************)
(* parse_bids_directory: the second pass and the return value              *)
(***************************************************************************)
\* The (subject, derivative) pairs in the order the second pass visits them.
RECURSIVE Flatten(_)
Flatten(td) ==
    IF td = <<>> THEN <<>>
    ELSE [k \in 1..Len(Head(td).derivatives) |->
            [subject |-> Head(td).subject, derivative |-> Head(td).derivatives[k]]]
         \o Flatten(Tail(td))

\* Mutant of SubjectGroups: the groups are not required to have a magnitude
\* image.
SubjectGroupsAnyPayload(gs, subject) ==
    FilterSeq([i \in 1..Len(gs) |-> i],
              {i \in 1..Len(gs) : gs[i].Subject = subject})

\* subject_groups: the indices, in creation order, of the subject's groups
\* that have a magnitude image.
SubjectGroups(gs, subject) ==
    FilterSeq([i \in 1..Len(gs) |-> i],
              {i \in 1..Len(gs) : gs[i].Subject = subject /\ Len(gs[i].mag_nii) > 0})

\* key=lambda x: int(Acquisition) if Acquisition and Acquisition.isdigit() else 999
AcquisitionNumber(g) ==
    IF Truthy(g.Acquisition) /\ IsDigit(g.Acquisition)
    THEN StrToInt(g.Acquisition)
    ELSE 999

SortedSubjectGroups(gs, subject) ==
    LET sg == SubjectGroups(gs, subject)
    IN  StableSortByKeys(sg, [k \in 1..Len(sg) |-> AcquisitionNumber(gs[sg[k]])])

\* is_cosmos_data = first_acq and first_acq.isdigit()
IsCosmosData(g) == Truthy(g.Acquisition) /\ IsDigit(g.Acquisition)

\* Derivatives[software_name][type].append(path), creating the levels.
AttachDerivative(g, d) ==
    LET bySoftware == DictGet(g.Derivatives, d.software_name, EmptyDict)
        paths      == DictGet(bySoftware, d.type, <<>>)
        paths1     == IF InList(d.path, paths) THEN paths ELSE Append(paths, d.path)
    IN  [g EXCEPT !.Derivatives =
            DictSet(@, d.software_name, DictSet(bySoftware, d.type, paths1))]

SetMask(g, d) == IF d.type = "mask" THEN [g EXCEPT !.mask = d.path] ELSE g

\* matching_groups of the synthetic-data branch.
DerivativeMatches(g, d) ==
    /\ g.Session = d.session
    /\ g.Acquisition = d.acquisition
    /\ g.Run = d.run

\* Mutant of MatchOne: in the COSMOS branch the mask is set on the target
\* group only, not on every group of the subject.
MatchOneMaskOnTarget(gs, subject, d) ==
    LET sg == SortedSubjectGroups(gs, subject)
    IN  IF sg = <<>>
        THEN gs
        ELSE IF IsCosmosData(gs[sg[1]])
        THEN [i \in 1..Len(gs) |->
                IF i = sg[1] THEN SetMask(AttachDerivative(gs[i], d), d) ELSE gs[i]]
        ELSE [i \in 1..Len(gs) |->
                IF InList(i, sg) /\ DerivativeMatches(gs[i], d)
                THEN SetMask(AttachDerivative(gs[i], d), d)
                ELSE gs[i]]

\* The body of the second pass for one derivative of one subject.
MatchOne(gs, subject, d) ==
    LET sg == SortedSubjectGroups(gs, subject)
    IN  IF sg = <<>>
        THEN gs
        ELSE IF IsCosmosData(gs[sg[1]])
        THEN [i \in 1..Len(gs) |->
                LET g1 == IF i = sg[1] THEN AttachDerivative(gs[i], d) ELSE gs[i]
                IN  IF InList(i, sg) THEN SetMask(g1, d) ELSE g1]
        ELSE [i \in 1..Len(gs) |->
                IF InList(i, sg) /\ DerivativeMatches(gs[i], d)
                THEN SetMask(AttachDerivative(gs[i], d), d)
                ELSE gs[i]]

\* Remove empty groups (derivatives-only groups).
KeepGroup(g) == Len(g.mag_nii) > 0 \/ DOMAIN g.Derivatives = {}

OrEmpty(v) == IF Truthy(v) THEN v ELSE ""

\* The key of the final sorted(...).
SortKey(g) == <<g.Subject, OrEmpty(g.Session), OrEmpty(g.Acquisition), OrEmpty(g.Run)>>

\* Python's < on tuples of str.
RECURSIVE TupleLess(_, _)
TupleLess(a, b) ==
    IF Len(b) = 0 THEN FALSE
    ELSE IF Len(a) = 0 THEN TRUE
    ELSE IF Head(a) = Head(b) THEN TupleLess(Tail(a), Tail(b))
    ELSE StrLess(Head(a), Head(b))

\* Mutant of SortGroups: the list is sorted by Subject alone.
SortGroupsBySubject(gs) ==
    StableSortByKeys(gs,
        [i \in 1..Len(gs) |->
            Cardinality({j \in 1..Len(gs) : StrLess(gs[j].Subject, gs[i].Subject)})])

\* sorted(groups, key=...)
SortGroups(gs) ==
    StableSortByKeys(gs,
        [i \in 1..Len(gs) |->
            Cardinality({j \in 1..Len(gs) : TupleLess(SortKey(gs[j]), SortKey(gs[i]))})])

FinalList(gs) ==
    SortGroups(FilterSeq(gs, {gs[i] : i \in {j \in 1..Len(gs) : KeepGroup(gs[j])}}))

(***************************************************************************)
(* parse_bids_directory as a state machine                                 *)
(***************************************************************************)
\* b0_dir_map as read from qsm-forward-params.json: one entry, for acq A.
ParamsFile == ("A" :> <<0, 1, 0>>)

\* run.main is not running.
RunIdle ==
    /\ setup = [main_sh |-> TRUE, image |-> FALSE, copied |-> FALSE]
    /\ engine = "docker"
    /\ units = <<>>
    /\ main_pc = "done"
    /\ rpc = <<>>
    /\ inputs_json = <<>>
    /\ proc = <<>>
    /\ output_dir = EmptyDict
    /\ derived = EmptyDict
    /\ containers = EmptyDict
    /\ outcome = <<>>

Init ==
    /\ RunIdle
    /\ tree \in Trees
    /\ b0_dir_map = ParamsFile
    /\ pc = "walk"
    /\ stack = <<BidsDir>>
    /\ root = ""
    /\ files = <<>>
    /\ session = None
    /\ groups = <<>>
    /\ temp_derivatives = <<>>
    /\ pending = <<>>
    /\ result = <<>>
    /\ run_no = 1
    /\ prev = <<>>

\* os.walk yields the next directory; its subdirectories are visited next, in
\* the order the file system lists them.  files.sort().
EnterDir ==
    /\ pc = "walk"
    /\ files = <<>>
    /\ stack # <<>>
    /\ \E order \in Perms(SubDirs(tree, Head(stack))) :
           stack' = order \o Tail(stack)
    /\ root' = Head(stack)
    /\ session' = RootSessionOf[Head(stack)]
    /\ files' = SortedStrs(CHOOSE listing \in Perms(FilesIn(tree, Head(stack))) : TRUE)
    /\ UNCHANGED <<tree, b0_dir_map, pc, groups, temp_derivatives, pending,
                   result, run_no, prev>>
    /\ UNCHANGED runVars

\* The loop body reaches json.load(f) for this file and json.load raises.
ReadFails(r, file) ==
    /\ Facts(r, file).hasDataExt
    /\ Facts(r, file).subject # None
    /\ Facts(r, file).isPrimary
    /\ Facts(r, file).isJson
    /\ Facts(r, file).part \in {"mag", "phase"}
    /\ SidecarContent[PathJoin(r, file)] = Malformed

\* One iteration of `for file in files`.
ProcessFile ==
    /\ pc = "walk"
    /\ files # <<>>
    /\ ~ReadFails(root, Head(files))
    /\ LET file    == Head(files)
           facts   == Facts(root, file)
           subject == facts.subject
           ses     == IF ~Truthy(session) THEN facts.noSession ELSE session
       IN  IF ~facts.hasDataExt \/ subject = None
           THEN UNCHANGED <<session, groups, temp_derivatives>>
           ELSE /\ session' = ses
                /\ IF facts.isPrimary
                   THEN /\ groups' = GroupFile(groups, subject, ses, root, file)
                        /\ UNCHANGED temp_derivatives
                   ELSE /\ UNCHANGED groups
                        /\ temp_derivatives' =
                             IF facts.isQueued
                             THEN QueueDerivative(temp_derivatives, subject,
                                    [ software_name |-> facts.software,
                                      type          |-> facts.type,
                                      session       |-> ses,
                                      acquisition   |-> facts.acquisition,
                                      run           |-> facts.run,
                                      path          |-> facts.path ])
                             ELSE temp_derivatives
    /\ files' = Tail(files)
    /\ UNCHANGED <<tree, b0_dir_map, pc, stack, root, pending, result, run_no, prev>>
    /\ UNCHANGED runVars

\* json.load raises on the sidecar: nothing catches it, the exception
\* leaves parse_bids_directory and no list is returned.
SidecarError ==
    /\ pc = "walk"
    /\ files # <<>>
    /\ ReadFails(root, Head(files))
    /\ pc' = "failed"
    /\ UNCHANGED <<tree, b0_dir_map, stack, root, files, session, groups,
                   temp_derivatives, pending, result, run_no, prev>>
    /\ UNCHANGED runVars

\* The walk is exhausted: the second pass starts.
EndWalk ==
    /\ pc = "walk"
    /\ files = <<>>
    /\ stack = <<>>
    /\ pc' = "match"
    /\ pending' = Flatten(temp_derivatives)
    /\ UNCHANGED <<tree, b0_dir_map, stack, root, files, session, groups,
                   temp_derivatives, result, run_no, prev>>
    /\ UNCHANGED runVars

\* One iteration of the second pass.
MatchDerivative ==
    /\ pc = "match"
    /\ pending # <<>>
    /\ groups' = MatchOne(groups, Head(pending).subject, Head(pending).derivative)
    /\ pending' = Tail(pending)
    /\ UNCHANGED <<tree, b0_dir_map, pc, stack, root, files, session,
                   temp_derivatives, result, run_no, prev>>
    /\ UNCHANGED runVars

\* Empty groups are removed, the list is sorted and returned.
Finish ==
    /\ pc = "match"
    /\ pending = <<>>
    /\ result' = FinalList(groups)
    /\ pc' = "done"
    /\ UNCHANGED <<tree, b0_dir_map, stack, root, files, session, groups,
                   temp_derivatives, pending, run_no, prev>>
    /\ UNCHANGED runVars

\* parse_bids_directory is called once more on the same, unmodified tree.
Rerun ==
    /\ pc = "done"
    /\ run_no = 1
    /\ run_no' = 2
    /\ prev' = result
    /\ pc' = "walk"
    /\ stack' = <<BidsDir>>
    /\ root' = ""
    /\ files' = <<>>
    /\ session' = None
    /\ groups' = <<>>
    /\ temp_derivatives' = <<>>
    /\ pending' = <<>>
    /\ result' = <<>>
    /\ UNCHANGED <<tree, b0_dir_map>>
    /\ UNCHANGED runVars

Next ==
    \/ EnterDir
    \/ ProcessFile
    \/ EndWalk
    \/ MatchDerivative
    \/ Finish
    \/ Rerun

Spec == Init /\ [][Next]_vars

\* parse_bids_directory on a dataset that may hold an unparsable sidecar.
InitSidecar ==
    /\ RunIdle
    /\ tree \in SidecarTrees
    /\ b0_dir_map = ParamsFile
    /\ pc = "walk"
    /\ stack = <<BidsDir>>
    /\ root = ""
    /\ files = <<>>
    /\ session = None
    /\ groups = <<>>
    /\ temp_derivatives = <<>>
    /\ pending = <<>>
    /\ result = <<>>
    /\ run_no = 1
    /\ prev = <<>>

NextSidecar ==
    \/ EnterDir
    \/ ProcessFile
    \/ SidecarError
    \/ EndWalk
    \/ MatchDerivative
    \/ Finish

SpecSidecar == InitSidecar /\ [][NextSidecar]_vars

\* parse_bids_directory on a dataset that holds a multi-echo series.
InitSeries ==
    /\ RunIdle
    /\ tree \in SeriesTrees
    /\ b0_dir_map = ParamsFile
    /\ pc = "walk"
    /\ stack = <<BidsDir>>
    /\ root = ""
    /\ files = <<>>
    /\ session = None
    /\ groups = <<>>
    /\ temp_derivatives = <<>>
    /\ pending = <<>>
    /\ result = <<>>
    /\ run_no = 1
    /\ prev = <<>>

NextSeries ==
    \/ EnterDir
    \/ ProcessFile
    \/ EndWalk
    \/ MatchDerivative
    \/ Finish

SpecSeries == InitSeries /\ [][NextSeries]_vars

\* parse_bids_directory on a dataset with several sources of B0_dir.
InitDirection ==
    /\ RunIdle
    /\ tree \in DirectionTrees
    /\ b0_dir_map = ParamsFile
    /\ pc = "walk"
    /\ stack = <<BidsDir>>
    /\ root = ""
    /\ files = <<>>
    /\ session = None
    /\ groups = <<>>
    /\ temp_derivatives = <<>>
    /\ pending = <<>>
    /\ result = <<>>
    /\ run_no = 1
    /\ prev = <<>>

NextDirection ==
    \/ EnterDir
    \/ ProcessFile
    \/ EndWalk
    \/ MatchDerivative
    \/ Finish

SpecDirection == InitDirection /\ [][NextDirection]_vars

\* parse_bids_directory on a dataset with session tokens in file names.
InitSession ==
    /\ RunIdle
    /\ tree \in SessionTrees
    /\ b0_dir_map = ParamsFile
    /\ pc = "walk"
    /\ stack = <<BidsDir>>
    /\ root = ""
    /\ files = <<>>
    /\ session = None
    /\ groups = <<>>
    /\ temp_derivatives = <<>>
    /\ pending = <<>>
    /\ result = <<>>
    /\ run_no = 1
    /\ prev = <<>>

NextSession ==
    \/ EnterDir
    \/ ProcessFile
    \/ EndWalk
    \/ MatchDerivative
    \/ Finish

SpecSession == InitSession /\ [][NextSession]_vars


(***************************************************************************)
(* run.py: paths of the derived-data layout                                *)
(***************************************************************************)
\* os.path.abspath(work_dir) and the basename of algo_dir.
WorkDir == "/work"

AlgoName == "algoX"

OutputDir == PathJoin(WorkDir, "output")

\* f"{v}"
FStr(v) == IF v = None THEN "None" ELSE v

\* ".".join(s.split('.')[1:])
AfterFirstDot(s) ==
    LET dots == {i \in 1..Len(s) : Char(s, i) = "."}
    IN  IF dots = {} THEN "" ELSE SubSeq(s, SetMin(dots) + 1, Len(s))

\* s.replace(old, '')
RECURSIVE RemoveAllFrom(_, _, _)
RemoveAllFrom(s, i, old) ==
    IF i > Len(s) THEN ""
    ELSE IF StartsAt(s, i, old) THEN RemoveAllFrom(s, i + Len(old), old)
    ELSE Char(s, i) \o RemoveAllFrom(s, i + 1, old)

RemoveAll(s, old) == RemoveAllFrom(s, 1, old)

ConstructBidsDerivativePath(input_json, algo_name, work_dir) ==
    LET subject == DictGet(input_json, "Subject", None)
        ses     == DictGet(input_json, "Session", None)
        path    == PathJoin(PathJoin(PathJoin(PathJoin(work_dir, "bids"),
                       "derivatives"), algo_name), "sub-" \o FStr(subject))
        path1   == IF Truthy(ses) THEN PathJoin(path, "ses-" \o ses) ELSE path
    IN  PathJoin(path1, "anat")

\* The acquisition is read from the key 'Acq'; the WorkUnit has 'Acquisition'.
ConstructBidsFilename(input_json, nifti_file) ==
    LET subject == DictGet(input_json, "Subject", None)
        ses     == DictGet(input_json, "Session", None)
        acq     == DictGet(input_json, "Acq", None)
        run     == DictGet(input_json, "Run", None)
    IN  "sub-" \o FStr(subject)
        \o (IF Truthy(ses) THEN "_ses-" \o ses ELSE "")
        \o (IF Truthy(acq) THEN "_acq-" \o acq ELSE "")
        \o (IF Truthy(run) THEN "_run-" \o run ELSE "")
        \o "_Chimap." \o AfterFirstDot(nifti_file)

(***************************************************************************)
(* run.py: the inputs of a run                                             *)
(***************************************************************************)
\* Largest number of WorkUnits in a batch.
MaxUnits == 2

Engines == {"docker", "apptainer", "tinyrange"}

\* The exit codes of the algorithm process, and the volumes main.sh may
\* leave in the output area.
ExitCodes == {0, 3}

OutNames == {"out.nii.gz", "chimap.nii"}

Identity(subject, ses, acquisition, run) ==
    [Subject |-> subject, Session |-> ses, Acquisition |-> acquisition, Run |-> run]

\* The WorkUnits of a batch, by identity, as parse_bids_directory returns
\* them: a run token without an acq token gives Acquisition = Run.
UnitKeys ==
    { Identity("1", None, "A", "1"),
      Identity("1", None, "B", "1"),
      Identity("1", None, None, None),
      Identity("1", "X", "A", "1"),
      Identity("2", None, "A", "1"),
      Identity("2", None, "2", "2") }

\* The lists parse_bids_directory can return: distinct keys, sorted.
UnitLists ==
    {SortGroups(CHOOSE q \in Perms(S) : TRUE) :
        S \in {T \in SUBSET UnitKeys : Cardinality(T) <= MaxUnits}}

\* Two WorkUnits of different subjects.
ConcurrentUnitLists ==
    {us \in UnitLists : Len(us) = 2 /\ us[1].Subject # us[2].Subject}

\* The names a volume of the output area can have in the move loop.
VolumeNames ==
    OutNames \cup {RemoveAll(n, ".gz") : n \in OutNames}
             \cup {"chimap.nii.gz", "chimap.nii"}

\* os.path.join(dest_dir, dest_file) for each WorkUnit and each volume of
\* the output area, tabulated.
DestinationTable ==
    [u \in UnitKeys |->
        [n \in VolumeNames |->
            PathJoin(ConstructBidsDerivativePath(u, AlgoName, WorkDir),
                     ConstructBidsFilename(u, PathJoin(OutputDir, n)))]]

DestinationOf(input_json, name) == DestinationTable[input_json][name]

\* client.containers.create(name=algo_name, ...): the name of the container
\* of an execution; the WorkUnit has no part in it.
ContainerName(algo_name, input_json) == algo_name

\* The environment dict both run_docker_algo and run_apptainer_algo build.
EnvBindings(input_json, algo_name) ==
    [ BIDS_SUBJECT     |-> DictGet(input_json, "Subject", None),
      BIDS_SESSION     |-> DictGet(input_json, "Session", None),
      BIDS_ACQUISITION |-> DictGet(input_json, "Acquisition", None),
      BIDS_RUN         |-> DictGet(input_json, "Run", None),
      PIPELINE_NAME    |-> algo_name,
      INPUTS_JSON      |-> "/workdir/inputs.json" ]

\* The environment main.sh is started with.  docker: environment=dict, a
\* None value leaves the variable without a value.  apptainer: one
\* --env VAR=value per entry, the value formatted with an f-string.
\* tinyrange: vm.add_command("bash main.sh"), no variable is passed.
LaunchEnv(container_engine, input_json, algo_name) ==
    LET b == EnvBindings(input_json, algo_name)
    IN  CASE container_engine = "docker" ->
               [k \in {x \in DOMAIN b : b[x] # None} |-> b[k]]
          [] container_engine = "apptainer" ->
               [k \in DOMAIN b |-> FStr(b[k])]
          [] OTHER -> EmptyDict

\* The number of lines main.sh prints before it exits.
LogLines == 25

NoProcess ==
    [state |-> "none", code |-> 0, doc |-> <<>>, wrote |-> {}, env |-> <<>>,
     lines |-> 0]

NoOutcome ==
    [status |-> "pending", harvested |-> FALSE, found |-> {}, moved |-> {},
     warned |-> FALSE, tail |-> 0]

\* parse_bids_directory is not running.
GrouperIdle ==
    /\ tree = {}
    /\ b0_dir_map = ParamsFile
    /\ pc = "done"
    /\ stack = <<>>
    /\ root = ""
    /\ files = <<>>
    /\ session = None
    /\ groups = <<>>
    /\ temp_derivatives = <<>>
    /\ pending = <<>>
    /\ result = <<>>
    /\ run_no = 1
    /\ prev = <<>>

(***************************************************************************)
(* run.py: handle_output                                                   *)
(***************************************************************************)
DictRemove(d, k) == [x \in DOMAIN d \ {k} |-> d[x]]

\* glob.glob(os.path.join(output_dir, "*.nii*"))
GlobNifti(od) == {n \in DOMAIN od : Contains(n, ".nii") /\ ~StartsAt(n, 1, ".")}

\* gunzip <n>: the file loses its .gz suffix, unless the target exists or
\* the file is not a gzip stream.
Gunzip(od, n) ==
    LET target == SubSeq(n, 1, Len(n) - 3)
    IN  IF n \notin DOMAIN od \/ target \in DOMAIN od \/ ~od[n].gzip
        THEN od
        ELSE DictSet(DictRemove(od, n), target, [od[n] EXCEPT !.gzip = FALSE])

\* The gunzip loop: the output area and the list of names after it.
RECURSIVE GunzipAll(_, _)
GunzipAll(names, od) ==
    IF names = <<>>
    THEN [od |-> od, names |-> <<>>]
    ELSE LET n    == Head(names)
             gz   == EndsWith(n, ".gz")
             rest == GunzipAll(Tail(names), IF gz THEN Gunzip(od, n) ELSE od)
         IN  [od    |-> rest.od,
              names |-> <<IF gz THEN RemoveAll(n, ".gz") ELSE n>> \o rest.names]

\* The move loop for WorkUnit i: shutil.move replaces an existing
\* destination and raises when the source is missing.
RECURSIVE MoveAll(_, _, _, _)
MoveAll(names, acc, input_json, i) ==
    IF names = <<>> \/ acc.raised
    THEN acc
    ELSE LET n    == Head(names)
             dest == DestinationOf(input_json, n)
         IN  IF n \notin DOMAIN acc.od
             THEN [acc EXCEPT !.raised = TRUE]
             ELSE MoveAll(Tail(names),
                          [ od      |-> DictRemove(acc.od, n),
                            derived |-> DictSet(acc.derived, dest,
                                          [unit |-> i, by |-> acc.od[n].by, src |-> n]),
                            moved   |-> acc.moved \cup {dest},
                            raised  |-> FALSE,
                            warned  |-> FALSE ],
                          input_json, i)

\* Mutant of Harvest: an empty output area is an error.
HarvestRaisesOnEmpty(order, od, dv, input_json, i) ==
    LET gz    == GunzipAll(order, od)
        start == [od |-> gz.od, derived |-> dv, moved |-> {}, raised |-> FALSE,
                  warned |-> FALSE]
    IN  IF gz.names = <<>>
        THEN [start EXCEPT !.raised = TRUE]
        ELSE MoveAll(gz.names, start, input_json, i)

\* handle_output for WorkUnit i, glob having listed the volumes in `order`:
\* the output area and the derivatives tree after it, the destinations
\* written, whether it raised and whether it logged "No NIfTI files found".
Harvest(order, od, dv, input_json, i) ==
    LET gz    == GunzipAll(order, od)
        start == [od |-> gz.od, derived |-> dv, moved |-> {}, raised |-> FALSE,
                  warned |-> FALSE]
    IN  IF gz.names = <<>>
        THEN [start EXCEPT !.warned = TRUE]
        ELSE MoveAll(gz.names, start, input_json, i)

(***************************************************************************)
(* run.py: run_algo and main as a state machine                            *)
(*                                                                         *)
(* rpc[i] is the position of the run_algo call for WorkUnit i:             *)
(*   idle -> write -> launch -> running -> harvest -> returned | raised    *)
(* inputs_json is work_dir/inputs.json, output_dir is work_dir/output,     *)
(* derived is the tree under work_dir/bids/derivatives, containers is the  *)
(* docker daemon's table of named containers.                              *)
(***************************************************************************)
Workers == 1..Len(units)

\* Mutant of WriteInputs: an inputs.json that is already there is kept.
WriteInputsIfAbsent(i) ==
    /\ rpc[i] = "write"
    /\ inputs_json' = IF inputs_json = <<>> THEN <<units[i]>> ELSE inputs_json
    /\ rpc' = [rpc EXCEPT ![i] = "launch"]
    /\ UNCHANGED <<setup, engine, units, main_pc, proc, output_dir, derived,
                   containers, outcome>>
    /\ UNCHANGED grouperVars

\* run_algo, first half: json.dump(input_json, work_dir/inputs.json).
WriteInputs(i) ==
    /\ rpc[i] = "write"
    /\ inputs_json' = <<units[i]>>
    /\ rpc' = [rpc EXCEPT ![i] = "launch"]
    /\ UNCHANGED <<setup, engine, units, main_pc, proc, output_dir, derived,
                   containers, outcome>>
    /\ UNCHANGED grouperVars

\* run_docker_algo up to container.start(), run_apptainer_algo up to Popen,
\* run_tinyrange_algo up to build_def: docker stops and removes a container
\* of the same name (killing its process), tinyrange copies inputs.json
\* into the VM definition.
Launch(i) ==
    /\ rpc[i] = "launch"
    /\ rpc' = [rpc EXCEPT ![i] = "running"]
    /\ containers' = IF engine = "docker"
                     THEN DictSet(containers, ContainerName(AlgoName, units[i]),
                                  [unit |-> i])
                     ELSE containers
    /\ proc' = [j \in Workers |->
                  IF j = i
                  THEN [NoProcess EXCEPT !.state = "running",
                                         !.env = LaunchEnv(engine, units[i], AlgoName),
                                         !.doc = IF engine = "tinyrange"
                                                 THEN inputs_json ELSE <<>>]
                  ELSE IF /\ engine = "docker"
                          /\ DictGet(containers, ContainerName(AlgoName, units[i]),
                                     [unit |-> 0]).unit = j
                          /\ proc[j].state = "running"
                  THEN [proc[j] EXCEPT !.state = "exited", !.code = 137]
                  ELSE proc[j]]
    /\ UNCHANGED <<setup, engine, units, main_pc, inputs_json, output_dir, derived, outcome>>
    /\ UNCHANGED grouperVars

\* Mutant of LaunchError: the launcher goes on to handle_output.
LaunchErrorThenHarvest(i) ==
    /\ rpc[i] = "launch"
    /\ engine \in {"docker", "apptainer"}
    /\ rpc' = [rpc EXCEPT ![i] = "harvest"]
    /\ outcome' = [outcome EXCEPT ![i].status = "pending"]
    /\ \E created \in BOOLEAN :
          containers' =
              IF engine # "docker" THEN containers
              ELSE IF created
                   THEN DictSet(containers, ContainerName(AlgoName, units[i]),
                                [unit |-> i])
                   ELSE DictRemove(containers, ContainerName(AlgoName, units[i]))
    /\ proc' = [j \in Workers |->
                  IF /\ j # i
                     /\ engine = "docker"
                     /\ DictGet(containers, ContainerName(AlgoName, units[i]),
                                [unit |-> 0]).unit = j
                     /\ proc[j].state = "running"
                  THEN [proc[j] EXCEPT !.state = "exited", !.code = 137]
                  ELSE proc[j]]
    /\ UNCHANGED <<setup, engine, units, main_pc, inputs_json, output_dir, derived>>
    /\ UNCHANGED grouperVars

\* The sandbox cannot be started: containers.create or container.start
\* raises (docker, after the container of the same name was stopped and
\* removed; a container that was created stays), or Popen raises
\* (apptainer).  Nothing catches the exception in the launcher.
LaunchError(i) ==
    /\ rpc[i] = "launch"
    /\ engine \in {"docker", "apptainer"}
    /\ rpc' = [rpc EXCEPT ![i] = "raised"]
    /\ outcome' = [outcome EXCEPT ![i].status = "raised"]
    /\ \E created \in BOOLEAN :
          containers' =
              IF engine # "docker" THEN containers
              ELSE IF created
                   THEN DictSet(containers, ContainerName(AlgoName, units[i]),
                                [unit |-> i])
                   ELSE DictRemove(containers, ContainerName(AlgoName, units[i]))
    /\ proc' = [j \in Workers |->
                  IF /\ j # i
                     /\ engine = "docker"
                     /\ DictGet(containers, ContainerName(AlgoName, units[i]),
                                [unit |-> 0]).unit = j
                     /\ proc[j].state = "running"
                  THEN [proc[j] EXCEPT !.state = "exited", !.code = 137]
                  ELSE proc[j]]
    /\ UNCHANGED <<setup, engine, units, main_pc, inputs_json, output_dir, derived>>
    /\ UNCHANGED grouperVars

\* The algorithm's main.sh: it reads inputs.json, leaves some volumes in
\* its output directory and exits.  Under docker and apptainer that
\* directory is work_dir/output; under tinyrange it is inside the VM.
AlgoRun(i) ==
    /\ rpc[i] = "running"
    /\ proc[i].state = "running"
    /\ \E outs \in SUBSET OutNames, code \in ExitCodes :
        /\ proc' = [proc EXCEPT ![i] =
                      [state |-> "exited", code |-> code,
                       doc   |-> IF engine = "tinyrange" THEN proc[i].doc
                                 ELSE inputs_json,
                       wrote |-> outs,
                       env   |-> proc[i].env,
                       lines |-> LogLines]]
        /\ output_dir' =
              IF engine = "tinyrange" THEN output_dir
              ELSE [n \in DOMAIN output_dir \cup outs |->
                       IF n \in outs
                       THEN [by |-> i, gzip |-> EndsWith(n, ".gz")]
                       ELSE output_dir[n]]
    /\ UNCHANGED <<setup, engine, units, main_pc, rpc, inputs_json, derived, containers, outcome>>
    /\ UNCHANGED grouperVars

\* The launcher after the process ended; every line the process printed
\* has been printed to stdout by then.  docker: container.wait() needs
\* the container to exist, and its result is not looked at.  apptainer:
\* RuntimeError on a non-zero return code.  tinyrange: build_def fails on a
\* non-zero exit; then /root/output/out.nii.gz is copied to
\* output/chimap.nii.gz, and when the VM has no such file either build_def
\* fails or the copy fails after creating an empty chimap.nii.gz.  The
\* RuntimeError of apptainer carries the return code and no output line;
\* that of tinyrange carries the text of build_def's exception, which may
\* or may not hold the output.
Wait(i) ==
    /\ rpc[i] = "running"
    /\ proc[i].state = "exited"
    /\ \E missing_fails_build \in BOOLEAN, log_in_message \in BOOLEAN :
        LET gone   == engine = "docker"
                      /\ DictGet(containers, ContainerName(AlgoName, units[i]),
                                 [unit |-> 0]).unit # i
            failed == proc[i].code # 0
            hasOut == "out.nii.gz" \in proc[i].wrote
            raises == CASE engine = "docker"    -> gone
                        [] engine = "apptainer" -> failed
                        [] OTHER -> failed \/ (~hasOut /\ missing_fails_build)
            carried == IF engine = "tinyrange" /\ log_in_message
                       THEN proc[i].lines ELSE 0
        IN  /\ rpc' = [rpc EXCEPT ![i] = IF raises THEN "raised" ELSE "harvest"]
            /\ outcome' = IF raises
                          THEN [outcome EXCEPT ![i].status = "raised",
                                               ![i].tail = carried]
                          ELSE outcome
            /\ output_dir' =
                  IF engine = "tinyrange" /\ ~raises
                  THEN DictSet(output_dir, "chimap.nii.gz",
                               [by |-> i, gzip |-> hasOut])
                  ELSE output_dir
    /\ UNCHANGED <<setup, engine, units, main_pc, inputs_json, proc, derived, containers>>
    /\ UNCHANGED grouperVars

\* KeyboardInterrupt while the launcher streams the logs of, or waits for,
\* the process it started: no handler and no finally clause is on the way,
\* so the exception leaves run_algo at once.  The docker container is left
\* as it is; a child process may or may not get the signal as well.
Cancel(i) ==
    /\ rpc[i] = "running"
    /\ rpc' = [rpc EXCEPT ![i] = "cancelled"]
    /\ outcome' = [outcome EXCEPT ![i].status = "cancelled"]
    /\ \E signalled \in BOOLEAN :
          proc' = IF engine # "docker" /\ signalled /\ proc[i].state = "running"
                  THEN [proc EXCEPT ![i].state = "exited", ![i].code = 130]
                  ELSE proc
    /\ UNCHANGED <<setup, engine, units, main_pc, inputs_json, output_dir, derived,
                   containers>>
    /\ UNCHANGED grouperVars

\* handle_output(work_dir, algo_name, input_json).  Under
\* tinyrange its exceptions are caught and logged as a warning.
HandleOutput(i) ==
    /\ rpc[i] = "harvest"
    /\ \E order \in Perms(GlobNifti(output_dir)) :
        LET h      == Harvest(order, output_dir, derived, units[i], i)
            raises == h.raised /\ engine # "tinyrange"
            status == IF raises THEN "raised" ELSE "returned"
        IN  /\ output_dir' = h.od
            /\ derived' = h.derived
            /\ rpc' = [rpc EXCEPT ![i] = status]
            /\ outcome' = [outcome EXCEPT ![i] =
                             [status    |-> status,
                              harvested |-> TRUE,
                              found     |-> {order[k] : k \in DOMAIN order},
                              moved     |-> h.moved,
                              warned    |-> h.warned \/ (h.raised /\ ~raises),
                              tail      |-> 0]]
    /\ UNCHANGED <<setup, engine, units, main_pc, inputs_json, proc, containers>>
    /\ UNCHANGED grouperVars

\* Mutant of SetupCheckScript: the entry script is not looked for.
SetupWithoutScriptCheck ==
    /\ main_pc = "setup"
    /\ main_pc' = "image"
    /\ UNCHANGED <<setup, engine, units, rpc, inputs_json, proc, output_dir, derived,
                   containers, outcome>>
    /\ UNCHANGED grouperVars

\* setup_environment, first part: the working directory is made, then
\* FileNotFoundError unless <algo_dir>/main.sh is a file.
SetupCheckScript ==
    /\ main_pc = "setup"
    /\ main_pc' = IF setup.main_sh THEN "image" ELSE "aborted"
    /\ UNCHANGED <<setup, engine, units, rpc, inputs_json, proc, output_dir, derived,
                   containers, outcome>>
    /\ UNCHANGED grouperVars

\* setup_environment, second part: the image names are read from main.sh
\* and the image of the chosen engine is resolved.
SetupResolveImage ==
    /\ main_pc = "image"
    /\ setup' = [setup EXCEPT !.image = TRUE]
    /\ main_pc' = "copy"
    /\ UNCHANGED <<engine, units, rpc, inputs_json, proc, output_dir, derived,
                   containers, outcome>>
    /\ UNCHANGED grouperVars

\* setup_environment, last part: <work_dir>/bids is replaced by a copy of
\* the dataset and the algorithm's files are copied into work_dir.
SetupCopy ==
    /\ main_pc = "copy"
    /\ setup' = [setup EXCEPT !.copied = TRUE]
    /\ derived' = EmptyDict
    /\ main_pc' = "loop"
    /\ UNCHANGED <<engine, units, rpc, inputs_json, proc, output_dir, containers,
                   outcome>>
    /\ UNCHANGED grouperVars

\* main: `for input_json in bids_data: run_algo(...)`, the next call.
MainCallRunAlgo ==
    /\ main_pc = "loop"
    /\ \E i \in Workers :
        /\ rpc[i] = "idle"
        /\ \A j \in 1..(i - 1) : rpc[j] = "returned"
        /\ rpc' = [rpc EXCEPT ![i] = "write"]
    /\ UNCHANGED <<setup, engine, units, main_pc, inputs_json, proc, output_dir, derived,
                   containers, outcome>>
    /\ UNCHANGED grouperVars

\* main: an exception of run_algo is not caught by the loop.
MainPropagate ==
    /\ main_pc = "loop"
    /\ \E i \in Workers : rpc[i] \in {"raised", "cancelled"}
    /\ main_pc' = "aborted"
    /\ UNCHANGED <<setup, engine, units, rpc, inputs_json, proc, output_dir, derived,
                   containers, outcome>>
    /\ UNCHANGED grouperVars

\* main after the loop: with docker, client.containers.get(algo_name) and
\* container.remove(); get raises NotFound when no container was created.
MainCleanup ==
    /\ main_pc = "loop"
    /\ \A i \in Workers : rpc[i] = "returned"
    /\ main_pc' = IF engine = "docker" /\ AlgoName \notin DOMAIN containers
                  THEN "aborted" ELSE "done"
    /\ containers' = IF engine = "docker"
                     THEN DictRemove(containers, AlgoName) ELSE containers
    /\ UNCHANGED <<setup, engine, units, rpc, inputs_json, proc, output_dir, derived, outcome>>
    /\ UNCHANGED grouperVars

\* The exit status of the python process once main is over: 1 when an
\* exception left main, 0 when main returned.
ExitStatus == IF main_pc = "aborted" THEN 1 ELSE 0

\* What an earlier run can have left in <work_dir>/output: a volume no
\* process of this run wrote (by = 0).  setup_environment warns about a
\* non-empty work_dir and removes only <work_dir>/bids.
LeftOver == ("chimap.nii" :> [by |-> 0, gzip |-> FALSE])

\* A batch run of main over the WorkUnits of `units`, in a working directory
\* that is empty or was used before.
InitRun ==
    /\ GrouperIdle
    /\ setup \in {[main_sh |-> m, image |-> FALSE, copied |-> FALSE] : m \in BOOLEAN}
    /\ engine \in Engines
    /\ units \in UnitLists
    /\ main_pc = "setup"
    /\ rpc = [i \in 1..Len(units) |-> "idle"]
    /\ inputs_json = <<>>
    /\ proc = [i \in 1..Len(units) |-> NoProcess]
    /\ output_dir \in {EmptyDict, LeftOver}
    /\ derived = EmptyDict
    /\ containers = EmptyDict
    /\ outcome = [i \in 1..Len(units) |-> NoOutcome]

NextRun ==
    \/ SetupCheckScript
    \/ SetupResolveImage
    \/ SetupCopy
    \/ MainCallRunAlgo
    \/ MainPropagate
    \/ MainCleanup
    \/ \E i \in Workers : WriteInputs(i)
    \/ \E i \in Workers : Launch(i)
    \/ \E i \in Workers : LaunchError(i)
    \/ \E i \in Workers : AlgoRun(i)
    \/ \E i \in Workers : Wait(i)
    \/ \E i \in Workers : HandleOutput(i)
    \/ \E i \in Workers : Cancel(i)

SpecRun == InitRun /\ [][NextRun]_vars

\* Two callers, each in run_algo for one WorkUnit of `units`, with the
\* same work_dir and algorithm.
InitConcurrent ==
    /\ GrouperIdle
    /\ setup = [main_sh |-> TRUE, image |-> TRUE, copied |-> TRUE]
    /\ engine \in Engines
    /\ units \in ConcurrentUnitLists
    /\ main_pc = "callers"
    /\ rpc = [i \in 1..Len(units) |-> "write"]
    /\ inputs_json = <<>>
    /\ proc = [i \in 1..Len(units) |-> NoProcess]
    /\ output_dir = EmptyDict
    /\ derived = EmptyDict
    /\ containers = EmptyDict
    /\ outcome = [i \in 1..Len(units) |-> NoOutcome]

NextConcurrent ==
    \/ \E i \in Workers : WriteInputs(i)
    \/ \E i \in Workers : Launch(i)
    \/ \E i \in Workers : AlgoRun(i)
    \/ \E i \in Workers : Wait(i)
    \/ \E i \in Workers : HandleOutput(i)

SpecConcurrent == InitConcurrent /\ [][NextConcurrent]_vars

(***************************************************************************)
(* Properties of parse_bids_directory (checked under Spec)                 *)
(***************************************************************************)
KeyOf(g) == <<g.Subject, g.Session, g.Acquisition, g.Run>>

KeysDistinct(gs) ==
    \A i, j \in 1..Len(gs) : i # j => KeyOf(gs[i]) # KeyOf(gs[j])

FileCount(g) == Len(g.mag_nii) + Len(g.mag_json) + Len(g.phase_nii) + Len(g.phase_json)

\* C1: the (Subject, Session, Acquisition, Run) keys of the WorkUnits are
\* pairwise distinct, in the list being built after every file and in the
\* list returned: a file with the key of an existing WorkUnit is merged.
C1_CompositeKeyUnique ==
    /\ KeysDistinct(groups)
    /\ pc = "done" => KeysDistinct(result)

\* Witness of C1: a returned list of several WorkUnits, one of which has
\* had a second file merged into it.
C1_Witness ==
    /\ pc = "done"
    /\ Len(result) >= 2
    /\ \E i \in 1..Len(result) : FileCount(result[i]) >= 2

\* C2: for a fixed tree, the returned list is the same whatever the order in
\* which the walk visits the directories: a second parse of the unmodified
\* tree returns the list the first one returned.
C2_SameListForEveryOrder ==
    (pc = "done" /\ run_no = 2) => result = prev

Subjects == {FileFacts[f].subject : f \in Universe} \ {None}

\* The mask derivative files of a subject, and the positions of its WorkUnits
\* in the returned list.
MaskFilesOf(s) ==
    {f \in tree : /\ FileFacts[f].isQueued
                  /\ FileFacts[f].type = "mask"
                  /\ FileFacts[f].subject = s}

ResultOf(s) == {i \in 1..Len(result) : result[i].Subject = s}

\* The subject has several WorkUnits differing in run, and exactly one mask
\* derivative file, whose name has no run token.
OneMaskSeveralRuns(s) ==
    /\ \E i, j \in ResultOf(s) : result[i].Run # result[j].Run
    /\ Cardinality(MaskFilesOf(s)) = 1
    /\ \A f \in MaskFilesOf(s) : FileFacts[f].run = None

\* C3 as claimed: with several runs and one mask without a run token, every
\* WorkUnit of the subject references the mask.
C3_MaskOnEveryWorkUnit ==
    pc = "done" =>
        \A s \in Subjects :
            OneMaskSeveralRuns(s) =>
                \A i \in ResultOf(s) : \A f \in MaskFilesOf(s) :
                    result[i].mask = FileFacts[f].path

\* Every WorkUnit of the subject that has a magnitude image has an all-digit
\* Acquisition (as it has when its files have a run- and no acq- token).
NumericAcquisitions(s) ==
    \A i \in ResultOf(s) :
        Len(result[i].mag_nii) > 0 => IsCosmosData(result[i])

\* C3 amended: when moreover the subject's WorkUnits with a magnitude image
\* all have an all-digit Acquisition, every WorkUnit of the subject that has
\* a magnitude image references the mask.
C3_MaskOnEveryNumericWorkUnit ==
    pc = "done" =>
        \A s \in Subjects :
            (OneMaskSeveralRuns(s) /\ NumericAcquisitions(s)) =>
                \A i \in ResultOf(s) : \A f \in MaskFilesOf(s) :
                    Len(result[i].mag_nii) > 0 => result[i].mask = FileFacts[f].path

\* Witness of C3: two WorkUnits of one subject, differing in run, both
\* referencing the subject's only mask.
C3_Witness ==
    /\ pc = "done"
    /\ \E s \in Subjects :
        /\ OneMaskSeveralRuns(s)
        /\ NumericAcquisitions(s)
        /\ \E i, j \in ResultOf(s) :
            /\ result[i].Run # result[j].Run
            /\ result[i].mask # None
            /\ result[i].mask = result[j].mask

HasRawImage(g) == Len(g.mag_nii) > 0 \/ Len(g.phase_nii) > 0

CarriesDerivatives(g) == DOMAIN g.Derivatives # {} \/ g.mask # None

PrimarySubjects == {FileFacts[f].subject : f \in {x \in tree : FileFacts[x].isPrimary}}

\* The queued derivative files whose subject has no primary file.
OrphanDerivatives ==
    {f \in tree : FileFacts[f].isQueued /\ FileFacts[f].subject \notin PrimarySubjects}

\* C4: no returned WorkUnit carries derivatives (or a mask) without a raw
\* image, and a derivative file whose subject has no primary file gives no
\* WorkUnit of that subject.
C4_NoEmptyGroupWithDerivatives ==
    pc = "done" =>
        /\ \A i \in 1..Len(result) :
               CarriesDerivatives(result[i]) => HasRawImage(result[i])
        /\ \A f \in OrphanDerivatives : ResultOf(FileFacts[f].subject) = {}

\* Witness of C4: a tree with an orphan derivative, parsed to a list in which
\* another subject's WorkUnit carries its derivative.
C4_Witness ==
    /\ pc = "done"
    /\ OrphanDerivatives # {}
    /\ \E i \in 1..Len(result) : CarriesDerivatives(result[i])


(***************************************************************************)
(* Properties of run.py (checked under SpecRun and SpecConcurrent)         *)
(***************************************************************************)
Opt(prefix, v) == IF Truthy(v) THEN prefix \o v ELSE ""

\* The derived-data layout: <work_dir>/bids/derivatives/<algo>/sub-<S>
\* [/ses-<X>]/anat/sub-<S>[_ses-<X>][_acq-<A>][_run-<R>]_Chimap.<ext>.
LayoutPath(u, ext) ==
    WorkDir \o "/bids/derivatives/" \o AlgoName
        \o "/sub-" \o u.Subject \o Opt("/ses-", u.Session) \o "/anat/"
        \o "sub-" \o u.Subject \o Opt("_ses-", u.Session)
        \o Opt("_acq-", u.Acquisition) \o Opt("_run-", u.Run)
        \o "_Chimap." \o ext

VolumeExts == {"nii", "nii.gz"}

\* C5: every harvested output file lies at the layout path of the WorkUnit
\* it was harvested for, with each optional token present exactly when
\* the WorkUnit has that field set.
C5_HarvestedAtLayoutPath ==
    \A dest \in DOMAIN derived :
        \E ext \in VolumeExts : dest = LayoutPath(units[derived[dest].unit], ext)

\* C6: after a batch step, every file a WorkUnit's harvest wrote is still
\* that WorkUnit's: no other WorkUnit's harvest has replaced it.
C6_NoHarvestOverwritten ==
    \A i \in Workers :
        \A dest \in outcome[i].moved :
            dest \in DOMAIN derived /\ derived[dest].unit = i

\* C7: an execution whose process exited with a non-zero code does not
\* return normally and none of its output is harvested.
C7_FailedExecutionNotHarvested ==
    \A i \in Workers :
        (proc[i].state = "exited" /\ proc[i].code # 0)
            => (outcome[i].status # "returned" /\ outcome[i].moved = {})

NoOutput(i) ==
    /\ outcome[i].harvested
    /\ proc[i].code = 0
    /\ outcome[i].found = {}

C9_BatchReachesEveryUnit ==
    (/\ main_pc \in {"done", "aborted"}
     /\ setup.copied
     /\ \A i \in Workers : rpc[i] # "cancelled")
        => \A i \in Workers : outcome[i].status # "pending"

\* C10: of two concurrent executions, each process reads its own
\* WorkUnit's input document and every harvested file was produced by the
\* process of the WorkUnit it is harvested for.
C10_ConcurrentIsolation ==
    /\ \A i \in Workers : proc[i].doc # <<>> => proc[i].doc = <<units[i]>>
    /\ \A dest \in DOMAIN derived : derived[dest].by = derived[dest].unit

\* C11: a launch under docker stops and removes an existing container only
\* when that container belongs to the same WorkUnit as the one launched,
\* never the container of a different WorkUnit.
C11_TeardownOnlySameWorkUnit ==
    [][\A i \in Workers :
          (/\ engine = "docker"
           /\ rpc[i] = "launch"
           /\ rpc'[i] = "running"
           /\ ContainerName(AlgoName, units[i]) \in DOMAIN containers)
          => units[containers[ContainerName(AlgoName, units[i])].unit] = units[i]]_vars

\* C12: whatever the backend, a WorkUnit's process is started with the
\* same environment: the bindings every backend gives for that WorkUnit.
C12_SameEnvironmentInEveryBackend ==
    \A i \in Workers :
        proc[i].state # "none" =>
            \A e \in Engines : proc[i].env = LaunchEnv(e, units[i], AlgoName)

\* C13: a sidecar that cannot be read or parsed never makes
\* parse_bids_directory fail: the walk goes on and a list is returned.
C13_BadSidecarNeverFatal ==
    BadSidecar \in tree => pc # "failed"

NothingStarted ==
    /\ ~setup.image
    /\ ~setup.copied
    /\ inputs_json = <<>>
    /\ containers = EmptyDict
    /\ \A i \in Workers : rpc[i] = "idle" /\ proc[i].state = "none"

\* C14: without a main.sh in the algorithm directory the run fails in
\* setup_environment: no image is resolved, nothing is copied into the
\* working directory and no WorkUnit is ever launched.
C14_NoScriptNothingStarts ==
    ~setup.main_sh => (main_pc \in {"setup", "aborted"} /\ NothingStarted)

C14_Witness ==
    /\ ~setup.main_sh
    /\ main_pc = "aborted"
    /\ Len(units) > 0
    /\ NothingStarted

\* The tuple (Subject, Session, Acquisition, Run) of a WorkUnit with the
\* empty string for a missing field, and the order of such tuples.
OrderKey(g) ==
    <<g.Subject,
      IF g.Session = None THEN "" ELSE g.Session,
      IF g.Acquisition = None THEN "" ELSE g.Acquisition,
      IF g.Run = None THEN "" ELSE g.Run>>

KeyBefore(a, b) ==
    \E k \in 1..4 :
        /\ \A m \in 1..(k - 1) : a[m] = b[m]
        /\ StrLess(a[k], b[k])

\* C15: the returned list is in ascending order of (Subject, Session,
\* Acquisition, Run), a missing field compared as the empty string.
C15_ResultSortedByKey ==
    pc = "done" =>
        \A i, j \in 1..Len(result) :
            i < j => ~KeyBefore(OrderKey(result[j]), OrderKey(result[i]))

\* A returned list of several WorkUnits that were created in another order.
C15_Witness ==
    /\ pc = "done"
    /\ \E i, j \in 1..Len(groups) :
          /\ i < j
          /\ KeepGroup(groups[i])
          /\ KeepGroup(groups[j])
          /\ KeyBefore(OrderKey(groups[j]), OrderKey(groups[i]))
    /\ \E i, j \in 1..Len(result) :
          /\ result[i].Subject = result[j].Subject
          /\ result[i].Session = None
          /\ result[j].Session # None

ExecutionFailed(i) == proc[i].state = "exited" /\ proc[i].code # 0

ExecutionSucceeded(i) ==
    /\ proc[i].state = "exited"
    /\ proc[i].code = 0
    /\ outcome[i].status = "returned"
    /\ outcome[i].moved # {}

\* C16: once a batch is over, the exit status of the process is non-zero
\* when every WorkUnit's execution failed, and zero when at least one
\* succeeded, whether or not others failed.
C16_ExitStatusIffAllFailed ==
    (main_pc \in {"done", "aborted"} /\ Len(units) > 0) =>
        /\ (\A i \in Workers : ExecutionFailed(i)) => ExitStatus # 0
        /\ (\E i \in Workers : ExecutionSucceeded(i)) => ExitStatus = 0

\* C17: whenever a cancellation has been propagated out of an execution,
\* the container of that execution no longer exists and its process no
\* longer runs.
C17_TeardownBeforeCancellation ==
    \A i \in Workers :
        rpc[i] = "cancelled" =>
            /\ ContainerName(AlgoName, units[i]) \notin DOMAIN containers
            /\ proc[i].state # "running"

\* C18: in a batch, when the launcher of an execution is entered and
\* while its process runs, inputs.json exists and holds the WorkUnit of
\* that execution, and that is the document the process reads.
C18_InputsWrittenBeforeLaunch ==
    \A i \in Workers :
        /\ rpc[i] \in {"launch", "running"} => inputs_json = <<units[i]>>
        /\ proc[i].state # "none" => inputs_json # <<>>
        /\ proc[i].doc # <<>> => proc[i].doc = <<units[i]>>

\* The second execution of a batch has started its process.
C18_Witness ==
    \E i \in Workers :
        /\ i > 1
        /\ units[i] # units[1]
        /\ proc[1].doc = <<units[1]>>
        /\ proc[i].state = "exited"
        /\ proc[i].doc = <<units[i]>>

\* C19: the failure reported for an execution whose process exited with a
\* non-zero code carries at least one and at most 20 of the lines the
\* process printed.
C19_FailureCarriesBoundedLogTail ==
    \A i \in Workers :
        (ExecutionFailed(i) /\ rpc[i] \in {"returned", "raised"}) =>
            /\ outcome[i].status = "raised"
            /\ outcome[i].tail >= 1
            /\ outcome[i].tail <= 20

Ascending(seq) ==
    \A i \in 1..Len(seq) - 1 : seq[i] <= seq[i + 1]

InPathOrder(seq) ==
    \A i \in 1..Len(seq) - 1 : seq[i] = seq[i + 1] \/ StrLess(seq[i], seq[i + 1])

EchoNumberOfPath ==
    [p \in {FileFacts[f].path : f \in AllFiles} |->
        FileFacts[CHOOSE f \in AllFiles : FileFacts[f].path = p].echo_number]

InEchoOrder(seq) ==
    \A i \in 1..Len(seq) - 1 : EchoNumberOfPath[seq[i]] <= EchoNumberOfPath[seq[i + 1]]

\* C21: in every returned WorkUnit the magnitude, phase and sidecar lists
\* are each in ascending order of the echo index of their files.
C21_ListsInEchoOrder ==
    pc = "done" =>
        \A k \in 1..Len(result) :
            /\ InEchoOrder(result[k].mag_nii)
            /\ InEchoOrder(result[k].phase_nii)
            /\ InEchoOrder(result[k].mag_json)
            /\ InEchoOrder(result[k].phase_json)

\* The tokens of a file taken from its own directory and name.
OwnSession(f) ==
    IF Truthy(FileFacts[f].rootSession) THEN FileFacts[f].rootSession
    ELSE FileFacts[f].noSession

OwnKeyIs(f, g) ==
    /\ g.Subject = FileFacts[f].subject
    /\ g.Session = OwnSession(f)
    /\ g.Acquisition = FileFacts[f].acquisition
    /\ g.Run = FileFacts[f].run

\* The derivative file is listed in the Derivatives of the WorkUnit.
ListsDerivative(g, f) ==
    /\ FileFacts[f].software \in DOMAIN g.Derivatives
    /\ FileFacts[f].type \in DOMAIN g.Derivatives[FileFacts[f].software]
    /\ InList(FileFacts[f].path, g.Derivatives[FileFacts[f].software][FileFacts[f].type])

DerivativeFiles(t) ==
    {f \in t : FileFacts[f].hasDataExt /\ FileFacts[f].subject # None
                /\ FileFacts[f].isQueued /\ ~FileFacts[f].isPrimary}

\* C22: a derivative file whose tokens equal the key of exactly one
\* WorkUnit is, after the second pass, listed in the Derivatives of that
\* WorkUnit and of no WorkUnit with a different key.
C22_DerivativeOnItsOwnWorkUnit ==
    pc = "done" =>
        \A f \in DerivativeFiles(tree) :
            Cardinality({k \in 1..Len(groups) : OwnKeyIs(f, groups[k])}) = 1 =>
                \A k \in 1..Len(groups) :
                    ListsDerivative(groups[k], f) <=> OwnKeyIs(f, groups[k])

\* The returned WorkUnits of the subject whose run no other of them precedes
\* in string order.
FirstRunOf(s) ==
    {i \in ResultOf(s) :
        \A j \in ResultOf(s) : ~StrLess(OrEmpty(result[j].Run), OrEmpty(result[i].Run))}

\* The non-mask derivative files that do not resolve to a unique returned
\* WorkUnit although their subject has one.
UnresolvedReferences ==
    {f \in DerivativeFiles(tree) :
        /\ FileFacts[f].type # "mask"
        /\ ResultOf(FileFacts[f].subject) # {}
        /\ Cardinality({i \in 1..Len(result) : OwnKeyIs(f, result[i])}) # 1}

\* C23: a non-mask derivative that does not resolve to a unique WorkUnit is
\* attached to exactly one WorkUnit of its subject, one whose run is first
\* in lexicographic order among the subject's WorkUnits.
C23_UnresolvedReferenceOnFirstRun ==
    pc = "done" =>
        \A f \in UnresolvedReferences :
            LET holders == {i \in 1..Len(result) : ListsDerivative(result[i], f)}
            IN  /\ Cardinality(holders) = 1
                /\ holders \subseteq FirstRunOf(FileFacts[f].subject)

\* C24: every returned WorkUnit has a magnitude or a phase volume; a
\* WorkUnit that received sidecars only is not returned.
C24_EveryWorkUnitHasRawImage ==
    pc = "done" => \A i \in 1..Len(result) : HasRawImage(result[i])

\* The sidecars of a WorkUnit, and what the sidecar at a path holds.
SidecarsOf(g) ==
    {g.mag_json[i] : i \in 1..Len(g.mag_json)} \cup
    {g.phase_json[i] : i \in 1..Len(g.phase_json)}

ContentOfPath(p) ==
    LET f == CHOOSE x \in AllFiles : FileFacts[x].path = p
    IN  SidecarContent[PathJoin(f.root, f.file)]

CarriesDirection(p) ==
    "B0_direction" \in DOMAIN ContentOfPath(p) \/ "B0_dir" \in DOMAIN ContentOfPath(p)

DirectionOf(p) ==
    IF "B0_direction" \in DOMAIN ContentOfPath(p)
    THEN ContentOfPath(p).B0_direction
    ELSE ContentOfPath(p).B0_dir

ConfiguredDirection(acquisition) ==
    IF acquisition \in DOMAIN b0_dir_map THEN b0_dir_map[acquisition] ELSE <<0, 0, 1>>

\* The sidecars a step adds to the k-th WorkUnit.
AddedSidecars(k) ==
    SidecarsOf(groups'[k]) \ (IF k <= Len(groups) THEN SidecarsOf(groups[k]) ELSE {})

\* C25: a WorkUnit is created with the configuration entry of its
\* acquisition, [0,0,1] without one; a step that processes a sidecar carrying
\* a direction sets B0_dir to it (B0_direction before B0_dir); no other step
\* changes B0_dir, so that the last sidecar carrying a direction wins and the
\* configuration and the default never replace a sidecar's direction.
C25_B0DirPrecedence ==
    [][\A k \in 1..Len(groups') :
          LET carrying == {p \in AddedSidecars(k) : CarriesDirection(p)}
          IN  groups'[k].B0_dir =
                  IF carrying # {}
                  THEN DirectionOf(CHOOSE p \in carrying : TRUE)
                  ELSE IF k <= Len(groups)
                       THEN groups[k].B0_dir
                       ELSE ConfiguredDirection(groups'[k].Acquisition)]_vars

\* A returned WorkUnit with a configuration entry and two sidecars carrying
\* a direction, whose B0_dir is the B0_direction of the one processed last,
\* a sidecar that also has a B0_dir.
C25_Witness ==
    /\ pc = "done"
    /\ \E k \in 1..Len(result) :
        /\ result[k].Acquisition \in DOMAIN b0_dir_map
        /\ Cardinality({p \in SidecarsOf(result[k]) : CarriesDirection(p)}) >= 2
        /\ result[k].B0_dir = <<1, 1, 0>>
        /\ result[k].B0_dir # b0_dir_map[result[k].Acquisition]

\* C26: under docker and apptainer the sandbox of a WorkUnit is launched
\* only after its input document was written, harvesting starts only once
\* the process has terminated and all its output was streamed, and a
\* WorkUnit whose launch failed is never harvested.
C26_WriteLaunchStreamExitHarvest ==
    [][\A i \in Workers :
          engine \in {"docker", "apptainer"} =>
              /\ (proc[i].state = "none" /\ proc'[i].state = "running") =>
                     (rpc[i] = "launch" /\ inputs_json = <<units[i]>>)
              /\ (~outcome[i].harvested /\ outcome'[i].harvested) =>
                     /\ rpc[i] = "harvest"
                     /\ proc[i].state = "exited"
                     /\ proc[i].lines = LogLines
                     /\ proc[i].doc = <<units[i]>>
              /\ (rpc[i] = "launch" /\ proc'[i].state = "none") =>
                     (rpc'[i] = "raised" /\ ~outcome'[i].harvested)
              /\ rpc[i] = "raised" => rpc'[i] = "raised"]_vars

\* A batch in which one WorkUnit went through all stages and was harvested
\* and the launch of the next one failed.
C26_Witness ==
    /\ engine \in {"docker", "apptainer"}
    /\ \E i, j \in Workers :
        /\ outcome[i].harvested /\ proc[i].state = "exited"
        /\ rpc[j] = "raised" /\ proc[j].state = "none" /\ ~outcome[j].harvested

\* The raw files of a WorkUnit.
RawFilesOf(g) ==
    {f \in AllFiles :
        FileFacts[f].path \in SidecarsOf(g)
                               \cup {g.mag_nii[i] : i \in 1..Len(g.mag_nii)}
                               \cup {g.phase_nii[i] : i \in 1..Len(g.phase_nii)}}

\* C27: every file is grouped under the key its own directory and name
\* give; its session is that of its directory or, without one, that of its
\* name, never that of a file processed before it.
C27_KeyFromOwnPathAndName ==
    \A k \in 1..Len(groups) :
        \A f \in RawFilesOf(groups[k]) : OwnKeyIs(f, groups[k])

\* C28: a harvest that returns normally relocates the volumes it found in
\* the output area to as many different destinations, so that none of them
\* replaces another one of the same execution.
C28_SiblingsToDifferentDestinations ==
    \A i \in Workers :
        (outcome[i].harvested /\ outcome[i].status = "returned") =>
            Cardinality(outcome[i].moved) = Cardinality(outcome[i].found)

\* C29: every file of the derivatives layout that a WorkUnit's harvest
\* relocated was written to the output area by that WorkUnit's own process,
\* not left there from before the execution.
C29_OnlyOwnOutputHarvested ==
    \A i \in Workers :
        \A dest \in DOMAIN derived :
            derived[dest].unit = i => derived[dest].by = i

\* C30: a docker batch over an empty list of WorkUnits that got through
\* setup ends without error, and once a docker batch has completed no
\* container named after the algorithm is left.
C30_EmptyBatchEndsCleanly ==
    engine = "docker" =>
        /\ (Len(units) = 0 /\ setup.copied /\ main_pc \in {"done", "aborted"})
               => ExitStatus = 0
        /\ main_pc = "done" => ContainerName(AlgoName, <<>>) \notin DOMAIN containers

====
